---- MODULE Spec2Model ----
(***************************************************************************)
(* A model of story-shuffler (src/src/app.rs): the per-section constraints, *)
(* the precedence graph built from them (compute_graph), the cycle search   *)
(* (find_cycle, which is petgraph's all_simple_paths from a vertex to       *)
(* itself), the validation pass (mark_cycles) and the root-peeling shuffle. *)
(*                                                                          *)
(* Texts are sequences of one-character strings, a character outside ASCII  *)
(* being named by its code point.  A NodeIndex is the zero-based integer    *)
(* petgraph uses; a node weight and a reference in a before list are        *)
(* one-based section numbers.                                               *)
(***************************************************************************)
EXTENDS Integers, Sequences, FiniteSets, TLC

VARIABLES
    original_manuscript,        \* String
    delimiter_pattern_is_regex, \* bool
    delimiter_pattern,          \* String
    delimiter_regex_error,      \* Option<String>
    original_sections,          \* Vec<String>
    constraints,                \* Vec<Constraints>
    shuffled_section_indices,   \* Option<Vec<usize>>
    shuffled_sections,          \* Option<Vec<String>>
    pc,                         \* where the shuffle request handler stands
    graph,                      \* the handler's DiGraph<usize, (), usize>
    indices,                    \* shuffle's local `indices`
    shuffled                    \* shuffle's local `shuffled`

vars == << original_manuscript, delimiter_pattern_is_regex, delimiter_pattern,
           delimiter_regex_error, original_sections, constraints,
           shuffled_section_indices, shuffled_sections, pc, graph, indices,
           shuffled >>

----------------------------------------------------------------------------
(* Bounds of the model. *)

\* The largest number of sections a manuscript is split into.
MaxSections == 3

\* The largest section number a successor list mentions.
MaxRef == 3

\* The longest text typed into a "Before" field, the long number aside.
MaxTextLen == 3

----------------------------------------------------------------------------
(* Option<T> and a few sequence helpers. *)

None == [some |-> FALSE, val |-> <<>>]

Some(v) == [some |-> TRUE, val |-> v]

Range(s) == { s[i] : i \in 1..Len(s) }

Front(s) == SubSeq(s, 1, Len(s) - 1)

Last(s) == s[Len(s)]

RECURSIVE Concat(_)
\* Iterator::collect / flatten of a sequence of sequences.
Concat(ss) == IF ss = <<>> THEN <<>> ELSE Head(ss) \o Concat(Tail(ss))

RECURSIVE Filter(_, _)
\* The subsequence of s whose elements are in `keep`.
Filter(s, keep) ==
    IF s = <<>> THEN <<>>
    ELSE IF Head(s) \in keep THEN <<Head(s)>> \o Filter(Tail(s), keep)
    ELSE Filter(Tail(s), keep)

RECURSIVE Reverse(_)
Reverse(s) == IF s = <<>> THEN <<>> ELSE Append(Reverse(Tail(s)), Head(s))

----------------------------------------------------------------------------
(* Characters, str::trim, str::split and str::parse::<usize>. *)

Digits == <<"0", "1", "2", "3", "4", "5", "6", "7", "8", "9">>

\* char::is_ascii_digit, the digits that str::parse::<usize> reads.
IsDigit(c) == c \in Range(Digits)

\* U+0663 ARABIC-INDIC DIGIT THREE, a decimal digit outside ASCII.
ArabicIndicThree == "u0663"

\* The class \d of the regex crate, which is Unicode-aware by default: every
\* character of the general category Nd.
IsRegexDigit(c) == IsDigit(c) \/ c = ArabicIndicThree

IsSpace(c) == c = " "

\* The value of a decimal digit character.
DigitValue(c) == (CHOOSE i \in 1..Len(Digits) : Digits[i] = c) - 1

\* The character of a one-digit number.
DigitChar(n) == Digits[n + 1]

RECURSIVE TrimStart(_)
TrimStart(s) ==
    IF s # <<>> /\ IsSpace(Head(s)) THEN TrimStart(Tail(s)) ELSE s

RECURSIVE TrimEnd(_)
TrimEnd(s) ==
    IF s # <<>> /\ IsSpace(Last(s)) THEN TrimEnd(Front(s)) ELSE s

\* str::trim
Trim(s) == TrimEnd(TrimStart(s))

\* Whether pattern p occurs in s at position i (one-based).
MatchesAt(s, p, i) ==
    /\ i + Len(p) - 1 <= Len(s)
    /\ \A k \in 1..Len(p) : s[i + k - 1] = p[k]

RECURSIVE SplitFrom(_, _, _, _)
\* str::split for a non-empty pattern: `start` is where the current piece
\* begins and `i` the position being examined.
SplitFrom(s, p, start, i) ==
    IF i > Len(s) THEN << SubSeq(s, start, Len(s)) >>
    ELSE IF MatchesAt(s, p, i)
         THEN << SubSeq(s, start, i - 1) >>
                  \o SplitFrom(s, p, i + Len(p), i + Len(p))
         ELSE SplitFrom(s, p, start, i + 1)

\* str::split(&str): an empty pattern matches at every character boundary,
\* the two ends included.
Split(s, p) ==
    IF p = <<>>
    THEN << <<>> >> \o [i \in 1..Len(s) |-> << s[i] >>] \o << <<>> >>
    ELSE SplitFrom(s, p, 1, 1)

\* usize::MAX on a 64-bit target, as its decimal digits.
UsizeMaxDigits ==
    << 1, 8, 4, 4, 6, 7, 4, 4, 0, 7, 3, 7, 0, 9, 5, 5, 1, 6, 1, 5 >>

RECURSIVE StripZeros(_)
StripZeros(ds) ==
    IF ds # <<>> /\ Head(ds) = "0" THEN StripZeros(Tail(ds)) ELSE ds

RECURSIVE DigitsGreater(_, _)
\* Whether the digit string ds denotes a larger number than the digit
\* values ms, both of the same length.
DigitsGreater(ds, ms) ==
    IF ds = <<>> THEN FALSE
    ELSE IF DigitValue(Head(ds)) # Head(ms)
         THEN DigitValue(Head(ds)) > Head(ms)
         ELSE DigitsGreater(Tail(ds), Tail(ms))

\* Whether a string of decimal digits exceeds usize::MAX.
Overflows(ds) ==
    LET z == StripZeros(ds)
    IN  \/ Len(z) > Len(UsizeMaxDigits)
        \/ Len(z) = Len(UsizeMaxDigits) /\ DigitsGreater(z, UsizeMaxDigits)

RECURSIVE DecimalValue(_, _)
DecimalValue(ds, acc) ==
    IF ds = <<>> THEN acc
    ELSE DecimalValue(Tail(ds), acc * 10 + DigitValue(Head(ds)))

\* s.parse::<usize>().unwrap_or_default(): an empty string, a character
\* that is no ASCII digit (a leading "+" aside) or an overflow gives 0.
ParseOrDefault(s) ==
    LET body == IF s # <<>> /\ Head(s) = "+" THEN Tail(s) ELSE s
    IN  IF body = <<>> \/ \E i \in 1..Len(body) : ~IsDigit(body[i]) THEN 0
        ELSE IF Overflows(body) THEN 0
        ELSE DecimalValue(StripZeros(body), 0)

----------------------------------------------------------------------------
\* SECTIONS_LIST_PATTERN: an empty text, or a comma-separated list of digit
\* runs, each with optional blanks on both sides.

RECURSIVE SectionsRegexRun(_, _)
\* The automaton of the pattern's non-empty alternative.  "item": before an
\* item's digits; "digits": inside them; "tail": in the blanks after them.
SectionsRegexRun(s, state) ==
    IF s = <<>> THEN state \in {"digits", "tail"}
    ELSE LET c == Head(s) IN
         CASE state = "item" ->
                IF IsSpace(c) THEN SectionsRegexRun(Tail(s), "item")
                ELSE IF IsRegexDigit(c) THEN SectionsRegexRun(Tail(s), "digits")
                ELSE FALSE
           [] state = "digits" ->
                IF IsRegexDigit(c) THEN SectionsRegexRun(Tail(s), "digits")
                ELSE IF IsSpace(c) THEN SectionsRegexRun(Tail(s), "tail")
                ELSE IF c = "," THEN SectionsRegexRun(Tail(s), "item")
                ELSE FALSE
           [] OTHER ->
                IF IsSpace(c) THEN SectionsRegexRun(Tail(s), "tail")
                ELSE IF c = "," THEN SectionsRegexRun(Tail(s), "item")
                ELSE FALSE

\* sections_regex.is_match(text)
SectionsRegexIsMatch(s) == s = <<>> \/ SectionsRegexRun(s, "item")

\* text.split(',').map(trim, parse, unwrap_or_default).filter(n != 0)
ParseBefore(s) ==
    LET pieces == Split(s, << "," >>)
        parsed == [i \in 1..Len(pieces) |-> ParseOrDefault(Trim(pieces[i]))]
    IN  Filter(parsed, Range(parsed) \ {0})

----------------------------------------------------------------------------
(* Constraints and the precedence graph (petgraph's Graph). *)

\* Constraints::default()
DefaultConstraints ==
    [ fixed |-> FALSE, before |-> <<>>, text_buffer |-> <<>>,
      text_buffer_is_valid |-> TRUE, paradox_error |-> None ]

\* DiGraph::default(): `nodes` holds the node weights, position i + 1 being
\* NodeIndex i; `edges` holds <<source, target>> NodeIndex pairs in the
\* order they were added.
EmptyGraph == [nodes |-> <<>>, edges |-> <<>>]

node_count(g) == Len(g.nodes)

\* graph.node_indices()
node_indices(g) == [i \in 1..node_count(g) |-> i - 1]

\* update_edge as it would be with Graph::add_edge in its place: an edge
\* already there is added once more.
add_edge(built, a, b) ==
    IF built.panic THEN built
    ELSE IF a < 0 \/ b < 0 \/ a >= node_count(built.graph)
              \/ b >= node_count(built.graph)
         THEN [built EXCEPT !.panic = TRUE]
         ELSE [built EXCEPT !.graph.edges = Append(@, <<a, b>>)]

\* Graph::update_edge(a, b, ()) on a build in progress: an edge already
\* there is kept as it is; add_edge panics when an end is no node of the graph.
update_edge(built, a, b) ==
    IF built.panic THEN built
    ELSE IF <<a, b>> \in Range(built.graph.edges) THEN built
    ELSE IF a < 0 \/ b < 0 \/ a >= node_count(built.graph)
              \/ b >= node_count(built.graph)
         THEN [built EXCEPT !.panic = TRUE]
         ELSE [built EXCEPT !.graph.edges = Append(@, <<a, b>>)]

RECURSIVE update_edges(_, _)
\* The update_edge calls of `calls`, in order.
update_edges(built, calls) ==
    IF calls = <<>> THEN built
    ELSE update_edges(update_edge(built, Head(calls)[1], Head(calls)[2]),
                      Tail(calls))

\* EdgeCalls as it would be without the special case of a fixed beginning.
EdgeCallsNoBeginning(cs, index) ==
    LET count == Len(cs)
        c == cs[index + 1]
        ending == IF index = count - 1 /\ cs[count].fixed
                  THEN [k \in 1..(count - 1) |-> <<k - 1, index>>]
                  ELSE <<>>
        own == [k \in 1..Len(c.before) |-> <<index, c.before[k] - 1>>]
    IN  ending \o own

\* The update_edge calls that compute_graph makes for the constraint at
\* zero-based `index`, in the order it makes them.
EdgeCalls(cs, index) ==
    LET count == Len(cs)
        c == cs[index + 1]
        beginning == IF index = 0 /\ c.fixed
                     THEN [k \in 1..(count - 1) |-> <<index, k>>]
                     ELSE <<>>
        ending == IF index = count - 1 /\ cs[count].fixed
                  THEN [k \in 1..(count - 1) |-> <<k - 1, index>>]
                  ELSE <<>>
        own == [k \in 1..Len(c.before) |-> <<index, c.before[k] - 1>>]
    IN  beginning \o ending \o own

\* compute_graph(constraints): the graph, or the panic of add_edge.
compute_graph(cs) ==
    LET count == Len(cs)
        start == [panic |-> FALSE,
                  graph |-> [nodes |-> [i \in 1..count |-> i], edges |-> <<>>]]
    IN  IF count = 0 THEN [panic |-> FALSE, graph |-> EmptyGraph]
        ELSE update_edges(start,
                 Concat([i \in 1..count |-> EdgeCalls(cs, i - 1)]))

\* neighbors_outgoing as it would be on an undirected graph: the other end
\* of every edge at a.
neighbors_undirected(g, a) ==
    LET at_a == { e \in Range(g.edges) : e[1] = a \/ e[2] = a }
        kept == Filter(g.edges, at_a)
    IN  Reverse([i \in 1..Len(kept) |->
                    IF kept[i][1] = a THEN kept[i][2] ELSE kept[i][1]])

\* graph.neighbors_directed(a, Outgoing): the targets of a's edges, the
\* edge added last first.
neighbors_outgoing(g, a) ==
    LET from_a == { e \in Range(g.edges) : e[1] = a }
        kept == Filter(g.edges, from_a)
    IN  Reverse([i \in 1..Len(kept) |-> kept[i][2]])

\* graph.neighbors_directed(a, Incoming).count()
incoming_count(g, a) == Cardinality({ e \in Range(g.edges) : e[2] = a })

RECURSIVE DropThrough(_, _)
\* What an iterator still holds after any(|v| v == to) found `to` in it.
DropThrough(s, to) ==
    IF s = <<>> THEN <<>>
    ELSE IF Head(s) = to THEN Tail(s) ELSE DropThrough(Tail(s), to)

RECURSIVE SimplePathsRun(_, _, _, _, _, _, _)
\* The iterator all_simple_paths returns, run to its end: `visited` is the
\* path being explored, `stack` the children still to try at each of its
\* nodes, `out` the paths yielded so far.
SimplePathsRun(g, to, min_length, max_length, visited, stack, out) ==
    IF stack = <<>> THEN out
    ELSE
      LET children == Last(stack) IN
      IF children = <<>>
      THEN SimplePathsRun(g, to, min_length, max_length,
                          Front(visited), Front(stack), out)
      ELSE
        LET child == Head(children)
            rest == Tail(children)
            stack1 == Append(Front(stack), rest)
        IN
        IF Len(visited) < max_length
        THEN IF child = to
             THEN IF Len(visited) >= min_length
                  THEN SimplePathsRun(g, to, min_length, max_length, visited,
                                      stack1, Append(out, Append(visited, to)))
                  ELSE SimplePathsRun(g, to, min_length, max_length, visited,
                                      stack1, out)
             ELSE IF child \notin Range(visited)
                  THEN SimplePathsRun(g, to, min_length, max_length,
                           Append(visited, child),
                           Append(stack1, neighbors_outgoing(g, child)), out)
                  ELSE SimplePathsRun(g, to, min_length, max_length, visited,
                                      stack1, out)
        ELSE IF (child = to \/ to \in Range(rest))
                   /\ Len(visited) >= min_length
             THEN SimplePathsRun(g, to, min_length, max_length, visited,
                      Append(Front(stack),
                             IF child = to THEN rest
                             ELSE DropThrough(rest, to)),
                      Append(out, Append(visited, to)))
             ELSE SimplePathsRun(g, to, min_length, max_length,
                                 Front(visited), Front(stack), out)

\* petgraph::algo::all_simple_paths(graph, from, to, min_intermediate_nodes,
\* max_intermediate_nodes), collected.  Without a maximum, a path may hold
\* node_count - 1 nodes before its target.
all_simple_paths(g, from, to, min_intermediate_nodes, max_intermediate_nodes) ==
    LET max_length == IF max_intermediate_nodes.some
                      THEN max_intermediate_nodes.val + 1
                      ELSE node_count(g) - 1
        min_length == min_intermediate_nodes + 1
    IN  SimplePathsRun(g, to, min_length, max_length, << from >>,
                       << neighbors_outgoing(g, from) >>, <<>>)

\* find_cycle as it would be if it asked for one intermediate node at least.
find_cycle_min_one(g, index) == all_simple_paths(g, index, index, 1, None)

\* find_cycle(graph, index)
find_cycle(g, index) == all_simple_paths(g, index, index, 0, None)

----------------------------------------------------------------------------
(* mark_cycles *)

\* The lines that mark_cycles writes for one cycle: the header, then one
\* line "§previous must come before §step" for each step, one-based.
CycleLines(cycle) ==
    << [header |-> TRUE, previous |-> 0, step |-> 0] >>
      \o [k \in 1..(Len(cycle) - 1) |->
            [header |-> FALSE, previous |-> cycle[k] + 1, step |-> cycle[k + 1] + 1]]

\* The error text of all the cycles found at one vertex.
ParadoxText(cycles) == Concat([k \in 1..Len(cycles) |-> CycleLines(cycles[k])])

RECURSIVE MarkCyclesLoopBreak(_, _, _, _)
\* The loop of mark_cycles as it would be if it stopped at the first vertex
\* that has a cycle.
MarkCyclesLoopBreak(cs, g, index, cycle_count) ==
    IF index >= node_count(g)
    THEN [constraints |-> cs, cycle_count |-> cycle_count]
    ELSE LET cycles == find_cycle(g, index) IN
         IF cycles # <<>>
         THEN [constraints |->
                   [cs EXCEPT ![index + 1].paradox_error =
                                  Some(ParadoxText(cycles))],
               cycle_count |-> cycle_count + 1]
         ELSE MarkCyclesLoopBreak(
                  [cs EXCEPT ![index + 1].paradox_error = None],
                  g, index + 1, cycle_count)

RECURSIVE MarkCyclesLoop(_, _, _, _)
\* The loop of mark_cycles over graph.node_indices(), from `index` on.
MarkCyclesLoop(cs, g, index, cycle_count) ==
    IF index >= node_count(g)
    THEN [constraints |-> cs, cycle_count |-> cycle_count]
    ELSE LET cycles == find_cycle(g, index) IN
         IF cycles # <<>>
         THEN MarkCyclesLoop(
                  [cs EXCEPT ![index + 1].paradox_error =
                                 Some(ParadoxText(cycles))],
                  g, index + 1, cycle_count + 1)
         ELSE MarkCyclesLoop(
                  [cs EXCEPT ![index + 1].paradox_error = None],
                  g, index + 1, cycle_count)

----------------------------------------------------------------------------
(* shuffle *)

\* roots as it would be with Direction::Outgoing: the node indices
\* without outgoing edges.
roots_outgoing(g) ==
    Filter(node_indices(g),
           { a \in Range(node_indices(g)) :
               { e \in Range(g.edges) : e[1] = a } = {} })

\* roots as it would be if the roots were not shuffled and there were only
\* the first of them to pluck.
roots_first_only(g) ==
    LET all == Filter(node_indices(g),
                      { a \in Range(node_indices(g)) :
                          incoming_count(g, a) = 0 })
    IN  IF all = <<>> THEN <<>> ELSE << Head(all) >>

\* The roots of the graph: the node indices without incoming edges, in
\* index order.
roots(g) ==
    Filter(node_indices(g),
           { a \in Range(node_indices(g)) : incoming_count(g, a) = 0 })

\* remove_node as it would be if the node weights were truncated instead
\* of swapped: the last weight is lost and a's weight stays.
remove_node_truncate(g, a) ==
    LET last == node_count(g) - 1
        kept == Filter(g.edges,
                       { e \in Range(g.edges) : e[1] # a /\ e[2] # a })
        Moved(i) == IF i = last THEN a ELSE i
    IN  [ nodes |-> [i \in 1..last |-> g.nodes[i]],
          edges |-> [k \in 1..Len(kept) |->
                        << Moved(kept[k][1]), Moved(kept[k][2]) >>] ]

\* Graph::remove_node(a): a's edges go, the last node takes a's index and
\* its edges follow it.
remove_node(g, a) ==
    LET last == node_count(g) - 1
        kept == Filter(g.edges,
                       { e \in Range(g.edges) : e[1] # a /\ e[2] # a })
        Moved(i) == IF i = last THEN a ELSE i
    IN  [ nodes |-> [i \in 1..last |-> IF i = a + 1 THEN g.nodes[last + 1]
                                       ELSE g.nodes[i]],
          edges |-> [k \in 1..Len(kept) |->
                        << Moved(kept[k][1]), Moved(kept[k][2]) >>] ]

----------------------------------------------------------------------------
(* update_sections *)

\* DEFAULT_DELIMITER_PATTERN, "* * *"
DEFAULT_DELIMITER_PATTERN == << "*", " ", "*", " ", "*" >>

\* Regex::new(pattern), for the patterns of this model: a pattern that
\* begins with the repetition operator does not compile; the others are
\* literals.
RegexCompiles(pattern) == Head(pattern) # "*"

\* update_sections as it would be if a pattern that does not compile
\* emptied the sections and left the constraints as they were.
update_sections_error_keeps(manuscript, is_regex, pattern) ==
    IF is_regex /\ pattern # <<>>
    THEN IF RegexCompiles(pattern)
         THEN LET pieces == Split(manuscript, pattern)
                  sections == [i \in 1..Len(pieces) |-> Trim(pieces[i])]
              IN  [ delimiter_regex_error |-> None,
                    original_sections |-> sections,
                    constraints |->
                        [i \in 1..Len(sections) |-> DefaultConstraints] ]
         ELSE [ delimiter_regex_error |-> Some("regex parse error"),
                original_sections |-> <<>>,
                constraints |-> constraints ]
    ELSE LET pieces == Split(manuscript, pattern)
             sections == [i \in 1..Len(pieces) |-> Trim(pieces[i])]
         IN  [ delimiter_regex_error |-> None,
               original_sections |-> sections,
               constraints |->
                   [i \in 1..Len(sections) |-> DefaultConstraints] ]

\* update_sections(): the fields it assigns.
update_sections(manuscript, is_regex, pattern) ==
    IF is_regex /\ pattern # <<>>
    THEN IF RegexCompiles(pattern)
         THEN LET pieces == Split(manuscript, pattern)
                  sections == [i \in 1..Len(pieces) |-> Trim(pieces[i])]
              IN  [ delimiter_regex_error |-> None,
                    original_sections |-> sections,
                    constraints |->
                        [i \in 1..Len(sections) |-> DefaultConstraints] ]
         ELSE [ delimiter_regex_error |-> Some("regex parse error"),
                original_sections |-> <<>>,
                constraints |-> <<>> ]
    ELSE LET pieces == Split(manuscript, pattern)
             sections == [i \in 1..Len(pieces) |-> Trim(pieces[i])]
         IN  [ delimiter_regex_error |-> None,
               original_sections |-> sections,
               constraints |->
                   [i \in 1..Len(sections) |-> DefaultConstraints] ]

----------------------------------------------------------------------------
(* The inputs of the model. *)

Letters == << "a", "b", "c", "d", "e", "f" >>

RECURSIVE ManuscriptOf(_)
\* A manuscript of k one-letter sections: "a - b - c".
ManuscriptOf(k) ==
    IF k = 0 THEN <<>>
    ELSE IF k = 1 THEN << Letters[1] >>
    ELSE ManuscriptOf(k - 1) \o << " ", "-", " ", Letters[k] >>

\* The manuscripts the user pastes: the empty one, and those of two or more
\* sections.
Manuscripts == { ManuscriptOf(k) : k \in {0} \cup 2..MaxSections }

\* The delimiters the user types.
Delimiters == { DEFAULT_DELIMITER_PATTERN, << "-" >>, <<>> }

\* The successor lists the user types: nothing, one section number, or
\* something that is no list.
Texts == { <<>>, << "x" >> } \cup { << DigitChar(r) >> : r \in 1..MaxRef }

\* Successor lists of at most one section number.
SingleTexts == { <<>> } \cup { << DigitChar(r) >> : r \in 1..MaxRef }

\* Successor lists of two section numbers, equal ones included.
PairTexts == { << DigitChar(r), ",", DigitChar(q) >> : r, q \in 1..MaxRef }

\* The characters typed into a "Before" field.
EditAlphabet == { "0", "1", ",", " ", "x" }

\* 2^64, one more than usize::MAX, as a text.
TooLargeText ==
    << "1", "8", "4", "4", "6", "7", "4", "4", "0", "7", "3", "7", "0", "9",
       "5", "5", "1", "6", "1", "6" >>

\* The texts typed into a "Before" field: every text of the alphabet up to
\* the length bound, a digit outside ASCII, and a number too large for usize.
EditTexts ==
    UNION { [1..k -> EditAlphabet] : k \in 0..MaxTextLen }
      \cup { << ArabicIndicThree >>, TooLargeText }

----------------------------------------------------------------------------
(* The application: its initial state and the handlers of its events. *)

\* StoryShufflerApp::default()
Init ==
    /\ original_manuscript = <<>>
    /\ delimiter_pattern_is_regex = FALSE
    /\ delimiter_pattern = DEFAULT_DELIMITER_PATTERN
    /\ delimiter_regex_error = None
    /\ original_sections = <<>>
    /\ constraints = <<>>
    /\ shuffled_section_indices = None
    /\ shuffled_sections = None
    /\ pc = "idle"
    /\ graph = EmptyGraph
    /\ indices = <<>>
    /\ shuffled = <<>>

\* No handler is running: the frame loop is between two events.
Ready == pc \in {"idle", "stored", "rejected"}

\* Resplit as it would be if update_sections dropped the stored ordering.
ResplitClearing(manuscript, is_regex, pattern) ==
    LET u == update_sections(manuscript, is_regex, pattern) IN
    /\ Len(u.original_sections) <= MaxSections
    /\ original_manuscript' = manuscript
    /\ delimiter_pattern_is_regex' = is_regex
    /\ delimiter_pattern' = pattern
    /\ delimiter_regex_error' = u.delimiter_regex_error
    /\ original_sections' = u.original_sections
    /\ constraints' = u.constraints
    /\ pc' = "idle"
    /\ shuffled_section_indices' = None
    /\ shuffled_sections' = None
    /\ UNCHANGED << graph, indices, shuffled >>

\* A re-split with the given settings, as an event between shuffles.
Resplit(manuscript, is_regex, pattern) ==
    LET u == update_sections(manuscript, is_regex, pattern) IN
    /\ Len(u.original_sections) <= MaxSections
    /\ original_manuscript' = manuscript
    /\ delimiter_pattern_is_regex' = is_regex
    /\ delimiter_pattern' = pattern
    /\ delimiter_regex_error' = u.delimiter_regex_error
    /\ original_sections' = u.original_sections
    /\ constraints' = u.constraints
    /\ pc' = "idle"
    /\ UNCHANGED << shuffled_section_indices, shuffled_sections, graph,
                    indices, shuffled >>

\* The "Use regex" checkbox is clicked.
ToggleRegex ==
    /\ Ready
    /\ Resplit(original_manuscript, ~delimiter_pattern_is_regex,
               delimiter_pattern)

\* The delimiter field is edited and loses focus.
EditDelimiter ==
    /\ Ready
    /\ \E d \in Delimiters :
          Resplit(original_manuscript, delimiter_pattern_is_regex, d)

\* The manuscript text area changes.
EditManuscript ==
    /\ Ready
    /\ \E m \in Manuscripts :
          /\ m # original_manuscript
          /\ Resplit(m, delimiter_pattern_is_regex, delimiter_pattern)

\* present_constraints shows the sections' controls.
ConstraintsShown == Len(original_sections) >= 2

\* The "Fixed" checkbox of the first or the last section is clicked.
ToggleFixed ==
    /\ Ready
    /\ ConstraintsShown
    /\ \E i \in {1, Len(original_sections)} :
          constraints' = [constraints EXCEPT ![i].fixed = ~@]
    /\ pc' = "idle"
    /\ UNCHANGED << original_manuscript, delimiter_pattern_is_regex,
                    delimiter_pattern, delimiter_regex_error,
                    original_sections, shuffled_section_indices,
                    shuffled_sections, graph, indices, shuffled >>

\* What a change of the "Before" field to `text` makes of a constraint.
edit_before(c, text) ==
    IF SectionsRegexIsMatch(text)
    THEN [c EXCEPT !.text_buffer = text,
                   !.text_buffer_is_valid = TRUE,
                   !.before = ParseBefore(text)]
    ELSE [c EXCEPT !.text_buffer = text,
                   !.text_buffer_is_valid = FALSE,
                   !.before = <<>>]

\* The "Before" field of a section that is not fixed changes to one of
\* `texts`.
EditBeforeTo(texts) ==
    /\ Ready
    /\ ConstraintsShown
    /\ \E i \in 1..Len(original_sections), text \in texts :
          /\ ~constraints[i].fixed
          /\ text # constraints[i].text_buffer
          /\ constraints' =
                 [constraints EXCEPT ![i] = edit_before(@, text)]
    /\ pc' = "idle"
    /\ UNCHANGED << original_manuscript, delimiter_pattern_is_regex,
                    delimiter_pattern, delimiter_regex_error,
                    original_sections, shuffled_section_indices,
                    shuffled_sections, graph, indices, shuffled >>

\* The "Before" field of a section that is not fixed changes.
EditBefore == EditBeforeTo(Texts)

\* can_shuffle as it would be if it looked at the section count only.
can_shuffle_count_only == Len(original_sections) > 1

\* can_shuffle()
can_shuffle ==
    /\ Len(original_sections) > 1
    /\ \A i \in 1..Len(constraints) : constraints[i].text_buffer_is_valid

\* mark_cycles begins: compute_graph builds the graph, or panics.
BuildGraph ==
    LET built == compute_graph(constraints) IN
    /\ pc' = IF built.panic THEN "panicked" ELSE "marking"
    /\ graph' = IF built.panic THEN EmptyGraph ELSE built.graph
    /\ indices' = <<>>
    /\ shuffled' = <<>>
    /\ UNCHANGED << original_manuscript, delimiter_pattern_is_regex,
                    delimiter_pattern, delimiter_regex_error,
                    original_sections, constraints,
                    shuffled_section_indices, shuffled_sections >>

\* The enabled "Shuffle" button is clicked.
ClickShuffle ==
    /\ Ready
    /\ can_shuffle
    /\ BuildGraph

\* mark_cycles visits the vertices and answers; shuffle is entered when it
\* answers the graph.
MarkCycles ==
    /\ pc = "marking"
    /\ LET marked == MarkCyclesLoop(constraints, graph, 0, 0) IN
          /\ constraints' = marked.constraints
          /\ pc' = IF marked.cycle_count = 0 THEN "shuffling" ELSE "rejected"
          /\ graph' = IF marked.cycle_count = 0 THEN graph ELSE EmptyGraph
    /\ UNCHANGED << original_manuscript, delimiter_pattern_is_regex,
                    delimiter_pattern, delimiter_regex_error,
                    original_sections, shuffled_section_indices,
                    shuffled_sections, indices, shuffled >>

\* ShuffleStep as it would be without the call of remove_node.
ShuffleStepNoRemoval ==
    /\ pc = "shuffling"
    /\ node_count(graph) # 0
    /\ LET rs == roots(graph) IN
          IF rs = <<>>
          THEN /\ pc' = "panicked"
               /\ UNCHANGED << graph, indices, shuffled >>
          ELSE \E k \in 1..Len(rs) :
                  LET root == rs[k]
                      index == graph.nodes[root + 1] - 1
                  IN  /\ indices' = Append(indices, index)
                      /\ shuffled' =
                             Append(shuffled, original_sections[index + 1])
                      /\ graph' = graph
                      /\ pc' = "shuffling"
    /\ UNCHANGED << original_manuscript, delimiter_pattern_is_regex,
                    delimiter_pattern, delimiter_regex_error,
                    original_sections, constraints,
                    shuffled_section_indices, shuffled_sections >>

\* One pass of shuffle's loop: a root is picked at random, emitted and
\* removed; unwrap panics when there is no root.
ShuffleStep ==
    /\ pc = "shuffling"
    /\ node_count(graph) # 0
    /\ LET rs == roots(graph) IN
          IF rs = <<>>
          THEN /\ pc' = "panicked"
               /\ UNCHANGED << graph, indices, shuffled >>
          ELSE \E k \in 1..Len(rs) :
                  LET root == rs[k]
                      index == graph.nodes[root + 1] - 1
                  IN  /\ indices' = Append(indices, index)
                      /\ shuffled' =
                             Append(shuffled, original_sections[index + 1])
                      /\ graph' = remove_node(graph, root)
                      /\ pc' = "shuffling"
    /\ UNCHANGED << original_manuscript, delimiter_pattern_is_regex,
                    delimiter_pattern, delimiter_regex_error,
                    original_sections, constraints,
                    shuffled_section_indices, shuffled_sections >>

\* shuffle's loop ends on the empty graph and the result is stored.
ShuffleStore ==
    /\ pc = "shuffling"
    /\ node_count(graph) = 0
    /\ shuffled_section_indices' = Some(indices)
    /\ shuffled_sections' = Some(shuffled)
    /\ pc' = "stored"
    /\ indices' = <<>>
    /\ shuffled' = <<>>
    /\ UNCHANGED << original_manuscript, delimiter_pattern_is_regex,
                    delimiter_pattern, delimiter_regex_error,
                    original_sections, constraints, graph >>

Next ==
    \/ ToggleRegex
    \/ EditDelimiter
    \/ EditManuscript
    \/ ToggleFixed
    \/ EditBefore
    \/ ClickShuffle
    \/ MarkCycles
    \/ ShuffleStep
    \/ ShuffleStore

Spec == Init /\ [][Next]_vars

----------------------------------------------------------------------------
(* The shuffle request on its own: mark_cycles, then shuffle, run on every
   constraint list of the bounds, as a restored or hand-built state holds it. *)

\* A message that an earlier validation pass left on section i.
StaleParadox(i) == Some(ParadoxText(<< << i - 1, i - 1 >> >>))

\* The successor lists of n sections: any lists of at most one number, one
\* section at most listing two.
ListChoices(n) ==
    { tx \in [1..n -> SingleTexts \cup PairTexts] :
        \A i, j \in 1..n : (tx[i] \in PairTexts /\ tx[j] \in PairTexts) => i = j }

\* The fixed flags of n sections: any for the first and the last, and the
\* same one for all sections between them.
FixedChoices(n) ==
    { fx \in [1..n -> BOOLEAN] : \A i, j \in 2..(n - 1) : fx[i] = fx[j] }

\* A document of n sections with such constraints, with or without the
\* messages of an earlier pass.
InitRequest ==
    \E n \in 0..MaxSections :
      LET m == IF n <= 1 THEN <<>> ELSE ManuscriptOf(n)
          u == update_sections(m, FALSE, << "-" >>)
      IN
      /\ original_manuscript = m
      /\ delimiter_pattern_is_regex = FALSE
      /\ delimiter_pattern = << "-" >>
      /\ delimiter_regex_error = None
      /\ original_sections = IF n = 0 THEN <<>> ELSE u.original_sections
      /\ \E tx \in ListChoices(n), fx \in FixedChoices(n), stale \in BOOLEAN :
            constraints =
                [i \in 1..n |->
                    [edit_before(DefaultConstraints, tx[i])
                        EXCEPT !.fixed = fx[i],
                               !.paradox_error =
                                   IF stale THEN StaleParadox(i) ELSE None]]
      /\ shuffled_section_indices = None
      /\ shuffled_sections = None
      /\ pc = "idle"
      /\ graph = EmptyGraph
      /\ indices = <<>>
      /\ shuffled = <<>>

\* The body of the click handler, on whatever constraints there are.
Request ==
    /\ pc = "idle"
    /\ BuildGraph

NextRequest ==
    \/ Request
    \/ MarkCycles
    \/ ShuffleStep
    \/ ShuffleStore

SpecRequest == InitRequest /\ [][NextRequest]_vars

----------------------------------------------------------------------------
(* The "Before" field on its own: a document of two sections, one of them
   fixed, whose other section's field takes every text of the bounds. *)

InitEdit ==
    LET m == ManuscriptOf(2)
        u == update_sections(m, FALSE, << "-" >>)
    IN
    /\ original_manuscript = m
    /\ delimiter_pattern_is_regex = FALSE
    /\ delimiter_pattern = << "-" >>
    /\ delimiter_regex_error = None
    /\ original_sections = u.original_sections
    /\ \E f \in 1..2 :
          constraints = [u.constraints EXCEPT ![f].fixed = TRUE]
    /\ shuffled_section_indices = None
    /\ shuffled_sections = None
    /\ pc = "idle"
    /\ graph = EmptyGraph
    /\ indices = <<>>
    /\ shuffled = <<>>

\* The field changes to any text of the bounds.
TypeBefore == EditBeforeTo(EditTexts)

NextEdit == TypeBefore

SpecEdit == InitEdit /\ [][NextEdit]_vars

----------------------------------------------------------------------------
(* Notions the properties are stated with. *)

\* The number of sections.
N == Len(constraints)

\* "Section u must come before section v", one-based, as the constraints
\* state it: a fixed first section precedes all others, all others precede
\* a fixed last section, and a section precedes those of its before list.
Precedence(cs) ==
    LET n == Len(cs) IN
    (IF n >= 1 /\ cs[1].fixed THEN { <<1, k>> : k \in 2..n } ELSE {})
      \cup (IF n >= 1 /\ cs[n].fixed
            THEN { <<k, n>> : k \in 1..(n - 1) } ELSE {})
      \cup UNION { { <<i, r>> : r \in Range(cs[i].before) } : i \in 1..n }

\* Every reference of every before list names a section.
InRange(cs) ==
    \A i \in 1..Len(cs) : \A r \in Range(cs[i].before) : 1 <= r /\ r <= Len(cs)

\* The simple directed cycles from v back to v in the graph of edges E on
\* the vertices V: v, then distinct other vertices, then v again.
SimpleCyclesAt(E, V, v) ==
    { p \in UNION { [1..k -> V] : k \in 2..(Cardinality(V) + 1) } :
        /\ p[1] = v
        /\ p[Len(p)] = v
        /\ \A j \in 1..(Len(p) - 1) : <<p[j], p[j + 1]>> \in E
        /\ \A a, b \in 1..(Len(p) - 1) : a # b => p[a] # p[b] }

RECURSIVE ReachedWithin(_, _, _)
\* The vertices that a walk of 1..k edges of E reaches from a vertex of S.
ReachedWithin(E, S, k) ==
    IF k = 0 THEN {}
    ELSE LET next == { e[2] : e \in { d \in E : d[1] \in S } }
         IN  next \cup ReachedWithin(E, next, k - 1)

\* No vertex lies on a directed cycle: none reaches itself.
Acyclic(E, V) ==
    \A v \in V : v \notin ReachedWithin(E, {v}, Cardinality(V))

\* The precedence graph of the current constraints has no cycle.
CycleFree == Acyclic(Precedence(constraints), 1..N)

\* The validation pass has just ended, with or without a graph.
Validated == pc = "rejected" \/ (pc = "shuffling" /\ indices = <<>>)

\* The stored index sequence.
Ordering == shuffled_section_indices.val

\* Where the zero-based section x stands in the stored sequence.
PositionOf(x) == CHOOSE k \in 1..Len(Ordering) : Ordering[k] = x

----------------------------------------------------------------------------
(* Properties of the shuffle. *)

\* C1: an ordering that shuffle has just stored is a linear extension of
\* the precedence graph: for every edge u -> v, section u - 1 stands
\* strictly before section v - 1.
C1_LinearExtension ==
    pc = "stored" =>
        \A e \in Precedence(constraints) :
            /\ \E k \in 1..Len(Ordering) : Ordering[k] = e[1] - 1
            /\ \E k \in 1..Len(Ordering) : Ordering[k] = e[2] - 1
            /\ PositionOf(e[1] - 1) < PositionOf(e[2] - 1)

\* C1 witness: three sections with 1 before 3 and 3 before 2 are stored in
\* the only order that respects both.
C1_Witness ==
    /\ pc = "stored"
    /\ N = 3
    /\ Precedence(constraints) = { <<1, 3>>, <<3, 2>> }
    /\ Ordering = << 0, 2, 1 >>

\* C2: the stored index sequence has one entry per section and holds each
\* of 0..N-1 exactly once.
C2_Permutation ==
    pc = "stored" =>
        /\ Len(Ordering) = N
        /\ \A x \in 0..(N - 1) :
              Cardinality({ k \in 1..Len(Ordering) : Ordering[k] = x }) = 1

\* C2 witness: an unconstrained document of three sections is stored with
\* the first section first, whose removal renumbers the last node.
C2_Witness ==
    /\ pc = "stored"
    /\ N = 3
    /\ Precedence(constraints) = {}
    /\ Ordering = << 0, 2, 1 >>

\* C3: with two or more sections, a fixed first section is stored first
\* and a fixed last section is stored last.
C3_FixedPositions ==
    (pc = "stored" /\ N >= 2) =>
        /\ constraints[1].fixed => Ordering[1] = 0
        /\ constraints[N].fixed => Ordering[Len(Ordering)] = N - 1

\* C3 witness: three sections, the first and the last fixed, are stored.
C3_Witness ==
    /\ pc = "stored"
    /\ N = 3
    /\ constraints[1].fixed
    /\ constraints[3].fixed
    /\ Ordering = << 0, 1, 2 >>

----------------------------------------------------------------------------
(* Properties of the validation pass. *)

\* compute_graph panicked: the handler died before any vertex was visited.
BuildPanicked == pc = "panicked" /\ node_count(graph) = 0

\* shuffle panicked: it found no root in a graph that still had nodes.
ShufflePanicked == pc = "panicked" /\ node_count(graph) # 0

\* The edges of a graph, as one-based pairs of section numbers.
SectionEdges(g) == { << e[1] + 1, e[2] + 1 >> : e \in Range(g.edges) }

\* The cycles that find_cycle answers at NodeIndex v, as a set of paths of
\* one-based section numbers.
FoundCycles(g, v) ==
    { [k \in 1..Len(c) |-> c[k] + 1] : c \in Range(find_cycle(g, v)) }

\* Whether the error text holds the rendering of the one-step cycle at
\* section i: a header, "§i must come before §i", and then another header
\* or the end.
TextHasSelfCycle(text, i) ==
    \E k \in 1..(Len(text) - 1) :
        /\ text[k].header
        /\ text[k + 1] = [header |-> FALSE, previous |-> i, step |-> i]
        /\ (k + 2 <= Len(text) => text[k + 2].header)

\* C4: when the graph that mark_cycles has built holds a cycle, the pass
\* ends in a rejection, shuffle is not entered and the stored ordering
\* stays as it was.
C4_CycleBlocksShuffle ==
    [][ (pc = "marking" /\ ~Acyclic(SectionEdges(graph), 1..N))
           => /\ pc' = "rejected"
              /\ UNCHANGED << shuffled_section_indices, shuffled_sections >>
      ]_vars

\* C5: at every vertex of the built graph, find_cycle answers exactly the
\* simple directed cycles from the vertex back to itself.
C5_FindsEveryCycle ==
    pc = "marking" =>
        \A v \in 1..N :
            FoundCycles(graph, v - 1) = SimpleCyclesAt(SectionEdges(graph), 1..N, v)

\* C6: once the validation pass has run over a graph, a section that
\* lists its own number carries a paradox message that holds the
\* one-step cycle at that section, and no graph was answered.
C6_SelfReference ==
    Validated =>
        \A i \in 1..N :
            i \in Range(constraints[i].before) =>
                /\ pc = "rejected"
                /\ << i, i >> \in
                       FoundCycles(compute_graph(constraints).graph, i - 1)
                /\ constraints[i].paradox_error.some
                /\ TextHasSelfCycle(constraints[i].paradox_error.val, i)

\* C6 witness: the single section of a one-section document lists itself
\* and the pass has rejected it.
C6_Witness ==
    /\ pc = "rejected"
    /\ N = 1
    /\ constraints[1].before = << 1 >>
    /\ constraints[1].paradox_error.some

\* C7: when the precedence graph is a DAG, the validation pass leaves no
\* paradox message, answers the graph, and find_cycle is empty at every
\* vertex of it.
C7_NoFalsePositives ==
    (Validated /\ CycleFree) =>
        /\ pc = "shuffling"
        /\ \A i \in 1..N : constraints[i].paradox_error = None
        /\ \A v \in 1..N : find_cycle(graph, v - 1) = <<>>
        /\ SectionEdges(graph) = Precedence(constraints)

\* C7 witness: the chain 1 -> 2 -> 3 has passed validation.
C7_Witness ==
    /\ pc = "shuffling"
    /\ indices = <<>>
    /\ N = 3
    /\ Precedence(constraints) = { <<1, 2>>, <<2, 3>> }

\* C8: when the validation pass ends, a section carries a paradox message
\* exactly if find_cycle answers a cycle at its vertex of the graph of the
\* current constraints, and the graph is answered exactly if no section
\* carries one.
C8_EveryVertexMarked ==
    Validated =>
        LET g == compute_graph(constraints).graph IN
        /\ \A i \in 1..N :
              constraints[i].paradox_error.some <=> find_cycle(g, i - 1) # <<>>
        /\ pc = "shuffling" <=>
              \A i \in 1..N : ~constraints[i].paradox_error.some
        /\ pc = "shuffling" => graph = g

\* C8 witness: a pass over three sections has rejected them with a message
\* on the first section and none on the third, whose vertex is on no cycle
\* that the detector answers.
C8_Witness ==
    /\ pc = "rejected"
    /\ N = 3
    /\ constraints[1].paradox_error.some
    /\ constraints[2].paradox_error.some
    /\ ~constraints[3].paradox_error.some
    /\ constraints[3].before = << 1 >>

\* C9: whenever the Shuffle button can be clicked, every reference of
\* every before list names a section.
C9_ReferencesInRange == (Ready /\ can_shuffle) => InRange(constraints)

\* C10: the graph that compute_graph builds for one or more sections has
\* the vertices 1..N in order and exactly the edges of the precedence
\* relation, each once; and it builds one whenever the references are in
\* range.
C10_GraphEdges ==
    /\ pc = "marking" =>
          /\ InRange(constraints)
          /\ graph.nodes = [i \in 1..N |-> i]
          /\ SectionEdges(graph) = Precedence(constraints)
          /\ Len(graph.edges) = Cardinality(Range(graph.edges))
    /\ BuildPanicked => ~InRange(constraints)

\* C10 witness: three sections, all fixed, the first listing section 2
\* twice, have their graph built.
C10_Witness ==
    /\ pc = "marking"
    /\ N = 3
    /\ constraints[1].fixed /\ constraints[2].fixed /\ constraints[3].fixed
    /\ constraints[1].before = << 2, 2 >>
    /\ constraints[2].before = << 3 >>
    /\ Len(graph.edges) = 3

----------------------------------------------------------------------------
(* Properties of the successor-list text. *)

RECURSIVE CommaItems(_, _)
\* The pieces of a text between its commas, `item` being the piece read so
\* far.
CommaItems(text, item) ==
    IF text = <<>> THEN << item >>
    ELSE IF Head(text) = "," THEN << item >> \o CommaItems(Tail(text), <<>>)
    ELSE CommaItems(Tail(text), Append(item, Head(text)))

\* A decimal integer with optional whitespace around it: blanks, one or
\* more of the digits 0..9, blanks.
IsIntegerItem(item) ==
    \E lo, hi \in 1..Len(item) :
        /\ lo <= hi
        /\ \A k \in 1..Len(item) :
              IF lo <= k /\ k <= hi THEN item[k] \in Range(Digits)
              ELSE item[k] = " "

\* The text is empty or a comma-separated list of such integers.
IsIntegerList(text) ==
    \/ text = <<>>
    \/ LET items == CommaItems(text, <<>>)
       IN  \A k \in 1..Len(items) : IsIntegerItem(items[k])

RECURSIVE Numeral(_)
\* The decimal digits of a positive number, without leading zeros.
Numeral(n) ==
    IF n < 10 THEN << DigitChar(n) >>
    ELSE Append(Numeral(n \div 10), DigitChar(n % 10))

\* The integers of an integer list in input order, every 0 left out, each
\* as its digits without leading zeros.
ListedNumerals(text) ==
    IF text = <<>> THEN <<>>
    ELSE LET items == CommaItems(text, <<>>)
             numerals == [k \in 1..Len(items) |->
                             StripZeros(SelectSeq(items[k],
                                 LAMBDA c : c \in Range(Digits)))]
         IN  Filter(numerals, Range(numerals) \ { <<>> })

\* C11: a section whose text is empty or an integer list is syntactically
\* valid and its before list holds the integers of the text in input order
\* without the zeros; a section with any other text is syntactically
\* invalid and its before list is empty.
C11_ParsedList ==
    \A i \in 1..N :
        LET c == constraints[i] IN
        IF IsIntegerList(c.text_buffer)
        THEN /\ c.text_buffer_is_valid
             /\ [k \in 1..Len(c.before) |-> Numeral(c.before[k])]
                    = ListedNumerals(c.text_buffer)
        ELSE /\ ~c.text_buffer_is_valid
             /\ c.before = <<>>

----------------------------------------------------------------------------
(* Properties of the state around the shuffle. *)

\* Some constraint is syntactically invalid.
AnyInvalid == \E i \in 1..N : ~constraints[i].text_buffer_is_valid

\* The step ends with every constraint at its default.
AllDefaultAfter ==
    \A i \in 1..Len(constraints') : constraints'[i] = DefaultConstraints

\* C12: from a state where some constraint is syntactically invalid, no
\* step enters mark_cycles or shuffle, none changes the stored ordering,
\* and none changes a paradox message other than a re-split, which replaces
\* all constraints; and a step that makes section i's text invalid keeps
\* section i's fixed flag and paradox message and every other section's
\* constraint.
C12_InvalidBlocksShuffle ==
    [][ /\ AnyInvalid =>
              /\ pc' \notin {"marking", "shuffling", "panicked"}
              /\ UNCHANGED << shuffled_section_indices, shuffled_sections >>
              /\ \/ AllDefaultAfter
                 \/ /\ Len(constraints') = N
                    /\ \A i \in 1..N :
                          constraints'[i].paradox_error
                              = constraints[i].paradox_error
        /\ \A i \in 1..N :
              ( /\ Len(constraints') = N
                /\ constraints[i].text_buffer_is_valid
                /\ ~constraints'[i].text_buffer_is_valid )
              => \A j \in 1..N :
                    IF j = i
                    THEN /\ constraints'[j].fixed = constraints[j].fixed
                         /\ constraints'[j].paradox_error
                                = constraints[j].paradox_error
                    ELSE constraints'[j] = constraints[j]
      ]_vars

\* C12 witness: an ordering is stored, a later pass has left a paradox
\* message on one section, and another section's text has then been made
\* invalid.
C12_Witness ==
    /\ pc = "idle"
    /\ shuffled_section_indices.some
    /\ \E i, j \in 1..N :
          /\ i # j
          /\ ~constraints[i].text_buffer_is_valid
          /\ constraints[j].paradox_error.some

\* C13: a stored ordering changes only in the step in which shuffle ends
\* and stores its result: no edit, toggle, re-split, rejected request or
\* panic changes shuffled_section_indices or shuffled_sections.
C13_ResultKept ==
    [][ shuffled_section_indices.some =>
            \/ UNCHANGED << shuffled_section_indices, shuffled_sections >>
            \/ /\ pc = "shuffling"
               /\ node_count(graph) = 0
               /\ pc' = "stored"
               /\ shuffled_section_indices' = Some(indices)
               /\ shuffled_sections' = Some(shuffled)
      ]_vars

\* C13 witness: an ordering of two sections is still stored after the
\* manuscript was split anew into three and a request on them was rejected.
C13_Witness ==
    /\ pc = "rejected"
    /\ shuffled_section_indices.some
    /\ Len(Ordering) = 2
    /\ Len(shuffled_sections.val) = 2
    /\ N = 3

\* The step changes the manuscript or the delimiter settings.
SettingsChange ==
    << original_manuscript, delimiter_pattern_is_regex, delimiter_pattern >>'
        # << original_manuscript, delimiter_pattern_is_regex,
             delimiter_pattern >>

\* C14: there are always as many constraints as sections, and a step that
\* changes the manuscript or the delimiter settings ends with as many
\* constraints as sections, every one of them the default.
C14_ResplitResets ==
    /\ [](Len(constraints) = Len(original_sections))
    /\ [][ SettingsChange =>
              /\ Len(constraints') = Len(original_sections')
              /\ AllDefaultAfter
         ]_vars

\* C14 witness: the delimiter was made a regex that does not compile after
\* an ordering had been stored, and sections and constraints are both
\* empty.
C14_Witness ==
    /\ delimiter_regex_error.some
    /\ shuffled_section_indices.some
    /\ original_sections = <<>>
    /\ constraints = <<>>

----------------------------------------------------------------------------
(* Properties of shuffle's loop. *)

\* C15: while shuffle runs on a graph that still has nodes, the graph has
\* a root, and shuffle never panics for want of one.
C15_RootsNonEmpty ==
    /\ (pc = "shuffling" /\ node_count(graph) # 0) => roots(graph) # <<>>
    /\ ~ShufflePanicked

\* The section numbers that are still in the graph.
Remaining(g) == Range(g.nodes)

\* The edges of a graph as pairs of the section numbers at their ends.
WeightEdges(g) ==
    { << g.nodes[e[1] + 1], g.nodes[e[2] + 1] >> : e \in Range(g.edges) }

\* shuffle is in its loop on a graph without cycles.
ShufflingAcyclic == pc = "shuffling" /\ CycleFree

\* C16: on an acyclic precedence graph, every pass of shuffle's loop emits
\* one index and one section and removes the emitted section's vertex and
\* exactly the edges at it; the loop is left exactly when the graph is
\* empty; and the passes made and the vertices left always add up to N,
\* with a root to pick while vertices are left, so that the loop makes
\* exactly N passes.
C16_ExactlyNIterations ==
    /\ [][ ShufflingAcyclic =>
              IF node_count(graph) = 0
              THEN /\ pc' = "stored"
                   /\ Len(indices) = N
                   /\ shuffled_section_indices' = Some(indices)
              ELSE LET emitted == Last(indices') + 1 IN
                   /\ pc' = "shuffling"
                   /\ Len(indices') = Len(indices) + 1
                   /\ Len(shuffled') = Len(shuffled) + 1
                   /\ Front(indices') = indices
                   /\ node_count(graph') = node_count(graph) - 1
                   /\ emitted \in Remaining(graph)
                   /\ Remaining(graph') = Remaining(graph) \ { emitted }
                   /\ WeightEdges(graph') =
                          { e \in WeightEdges(graph) :
                              e[1] # emitted /\ e[2] # emitted }
                   /\ Len(indices') + node_count(graph') = N
         ]_vars
    /\ [](ShufflingAcyclic =>
              /\ Len(indices) + node_count(graph) = N
              /\ Len(shuffled) = Len(indices)
              /\ node_count(graph) # 0 => roots(graph) # <<>>)
    /\ []((pc = "stored" /\ CycleFree) => Len(Ordering) = N)

\* C16 witness: the loop has made two of its three passes on the chain
\* 1 -> 2 -> 3 and one vertex is left.
C16_Witness ==
    /\ pc = "shuffling"
    /\ N = 3
    /\ Precedence(constraints) = { <<1, 2>>, <<2, 3>> }
    /\ indices = << 0, 1 >>
    /\ graph = [nodes |-> << 3 >>, edges |-> <<>>]

\* The linear extensions of the precedence relation: the arrangements of
\* the section numbers 1..n in which u stands before v for every edge
\* u -> v, zero-based as shuffle emits them.
LinearExtensions(cs) ==
    LET n == Len(cs) IN
    { L \in [1..n -> 0..(n - 1)] :
        /\ \A a, b \in 1..n : a # b => L[a] # L[b]
        /\ \A e \in Precedence(cs) :
              \E a, b \in 1..n :
                  a < b /\ L[a] = e[1] - 1 /\ L[b] = e[2] - 1 }

\* C17: on an acyclic precedence graph, whatever shuffle has emitted so
\* far, the next section of every linear extension that begins with it is
\* among the roots to pick from; so every linear extension is the outcome
\* of some sequence of picks.
C17_EveryExtensionOffered ==
    (ShufflingAcyclic /\ node_count(graph) # 0) =>
        \A L \in LinearExtensions(constraints) :
            SubSeq(L, 1, Len(indices)) = indices =>
                \E k \in 1..Len(roots(graph)) :
                    graph.nodes[roots(graph)[k] + 1] - 1
                        = L[Len(indices) + 1]

\* C17 witness: with the single edge 1 -> 3, the extension that begins
\* with section 2 has been stored.
C17_Witness ==
    /\ pc = "stored"
    /\ N = 3
    /\ Precedence(constraints) = { <<1, 3>> }
    /\ Ordering = << 1, 0, 2 >>
    /\ Ordering \in LinearExtensions(constraints)

====
